---- MODULE Spec2Model ----
(***************************************************************************)
(* Model of the two batch generators of the meta-pytorch portal:           *)
(*   generate.py                  search-index.json and projects.json      *)
(*   scripts/generate_sitemap.py  sitemap.xml, sitemap-unified.xml,        *)
(*                                --validate                               *)
(*                                                                         *)
(* A Python string is a sequence of tokens: "/" is a token of its own and  *)
(* every other token stands for a run of characters without "/" (a scheme  *)
(* with its "://", a host, a path segment).  Substring search, rstrip and  *)
(* concatenation are computed on these sequences.  Python's None is the    *)
(* distinguished value NoneValue; a key a mapping lacks is a key outside   *)
(* the DOMAIN of the record.                                               *)
(***************************************************************************)
EXTENDS Integers, Sequences, FiniteSets, TLC

VARIABLES
    prog,           \* which script runs: "generate" or "sitemap"
    registry,       \* the parsed content of projects.yaml
    offline,        \* generate.py --offline
    validate,       \* generate_sitemap.py --validate
    unified,        \* generate_sitemap.py --unified
    pc,             \* position in the running script
    i,              \* index of the project the loop is at
    projects_out,   \* generate(): projects_out
    search_index,   \* generate(): search_index
    manual_urls,    \* generate(): manual_urls of the current project
    pages,          \* generate(): pages of the current project
    cand,           \* _fetch_sitemap_urls(): index into sitemap_paths
    urls,           \* _fetch_sitemap_urls(): urls
    tried,          \* _fetch_sitemap_urls(): the candidate URLs fetched so far
    last,           \* _fetch_sitemap_urls(): the answer to the latest candidate
    sitemap_urls,   \* generate(): sitemap_urls of the current project
    j,              \* generate(): index into sitemap_urls
    fetched,        \* pages and sitemaps requested for the latest project
    network,        \* whether the run has made a network request
    all_valid,      \* validate_sitemaps(): all_valid
    results,        \* what fetch_sitemap did for each project handled so far
    root,           \* generate_unified_sitemap(): children of root
    files,          \* the output files
    error,          \* the uncaught exception that ended the run, or "none"
    exit_code       \* process exit status, -1 while running

vars == <<prog, registry, offline, validate, unified, pc, i, projects_out,
          search_index, manual_urls, pages, cand, sitemap_urls, j, fetched,
          network, all_valid, results, root, files, error, exit_code,
          urls, tried, last>>

(***************************************************************************)
(* Bounds                                                                  *)
(***************************************************************************)
MaxProjects == 2        \* projects in the registry
MaxSitemapUrls == 2     \* url entries one remote sitemap answers with

(***************************************************************************)
(* Strings                                                                 *)
(***************************************************************************)
NoneValue == <<"<None>">>
EmptyStr == <<>>

\* str.rstrip("/")
RECURSIVE rstrip(_)
rstrip(s) ==
    IF s # <<>> /\ s[Len(s)] = "/" THEN rstrip(SubSeq(s, 1, Len(s) - 1)) ELSE s

\* pat in s
Contains(s, pat) ==
    \E k \in 0..(Len(s) - Len(pat)) : SubSeq(s, k + 1, k + Len(pat)) = pat

LowerTok(t) ==
    CASE t = "TorchX" -> "torchx"
      [] t = "Guide" -> "guide"
      [] OTHER -> t

\* str.lower()
lower(s) == [k \in 1..Len(s) |-> LowerTok(s[k])]

\* dict.get(key, default)
Get(d, key, default) == IF key \in DOMAIN d THEN d[key] ELSE default

(***************************************************************************)
(* Constants of generate.py                                                *)
(***************************************************************************)
GITHUB_ORG == <<"meta-pytorch">>

sitemap_paths == <<
    <<"/", "sitemap.xml">>,
    <<"/", "stable", "/", "sitemap.xml">>,
    <<"/", "main", "/", "sitemap.xml">>,
    <<"/", "latest", "/", "sitemap.xml">>,
    <<"/", "en", "/", "stable", "/", "sitemap.xml">>,
    <<"/", "en", "/", "latest", "/", "sitemap.xml">>,
    <<"/", "sitemap_index.xml">> >>

_SKIP_PATTERNS == <<
    <<"/", "_sources", "/">>,
    <<"/", "_source", "/">>,
    <<"/", "_static", "/">>,
    <<"/", "_modules", "/">>,
    <<"/", "_downloads", "/">>,
    <<"/", "_images", "/">>,
    <<"/", "genindex">>,
    <<"/", "py-modindex">>,
    <<"/", "search.html">>,
    <<"/", "404.html">>,
    <<"/", "sg_execution_times">>,
    <<"/", "objects.inv">> >>

UncrawlableHosts == << <<"github.com">>, <<"huggingface.co">>, <<"gitlab.com">> >>

_is_crawlable(url) ==
    ~ \E k \in 1..Len(UncrawlableHosts) : Contains(url, UncrawlableHosts[k])

\* the patterns compared with the whole URL
_should_skip_url_Exact(url) ==
    \E k \in 1..Len(_SKIP_PATTERNS) : url = _SKIP_PATTERNS[k]

_should_skip_url(url) ==
    \E k \in 1..Len(_SKIP_PATTERNS) : Contains(url, _SKIP_PATTERNS[k])

\* proj.get("docs", f"https://meta-pytorch.org/{repo}/")
DefaultDocs(repo) == <<"https://", "meta-pytorch.org", "/">> \o repo \o <<"/">>

GithubUrl(repo) == <<"https://", "github.com", "/">> \o GITHUB_ORG \o <<"/">> \o repo

(***************************************************************************)
(* Constants of scripts/generate_sitemap.py                                *)
(***************************************************************************)
BASE_URL == <<"https://", "meta-pytorch.org">>
MAIN_SITEMAP_PATH == <<"sitemap-main.xml">>
Today == <<"today">>

(***************************************************************************)
(* The registries the runs are checked on.  A value yaml.safe_load reads   *)
(* as a date (an unquoted 2024-01-01) is DateValue.                        *)
(***************************************************************************)
DateValue == <<"<date>">>

DocsA == DefaultDocs(<<"ra">>)
DocsB == <<"https://", "docs.example.org", "/", "rb", "/">>
DocsGithub == GithubUrl(<<"rc">>)
ExplicitSitemap == <<"https://", "docs.example.org", "/", "rb", "/", "stable", "/", "sitemap.xml">>

\* the page URLs a docs site under `docs` advertises
PageA(docs) == rstrip(docs) \o <<"/", "a">>
PageASlash(docs) == rstrip(docs) \o <<"/", "a", "/">>
PageStatic(docs) == rstrip(docs) \o <<"/", "_static", "/", "x">>
PageUrls(docs) == {PageA(docs), PageASlash(docs), PageStatic(docs)}

ProjTitle == <<"TorchX">>

ProjectPool == {
    \* only the required fields
    [id |-> <<"pa">>, title |-> ProjTitle, repo |-> <<"ra">>],
    \* declared docs, two manual pages with the same normalized URL
    [id |-> <<"pb">>, title |-> ProjTitle, repo |-> <<"rb">>, docs |-> DocsB,
     pages |-> << [title |-> <<"Manual">>, url |-> PageASlash(DocsB)],
                  [title |-> <<"Manual2">>, url |-> PageA(DocsB),
                   content |-> <<"text">>] >>],
    \* sitemap: null, no docs, manual pages, one of them under /_static/
    [id |-> <<"pc">>, title |-> ProjTitle, repo |-> <<"ra">>, sitemap |-> NoneValue,
     pages |-> << [title |-> <<"Logo">>, url |-> PageStatic(DocsA)],
                  [title |-> <<"Intro">>, url |-> PageA(DocsA)] >>],
    \* docs on github.com, sitemap: null, a description that is a date
    [id |-> <<"pd">>, title |-> ProjTitle, repo |-> <<"rc">>, docs |-> DocsGithub,
     sitemap |-> NoneValue, description |-> DateValue],
    \* docs on github.com, explicit sitemap URL, all optional strings set
    [id |-> <<"pe">>, title |-> ProjTitle, repo |-> <<"rc">>, docs |-> DocsGithub,
     sitemap |-> ExplicitSitemap, description |-> <<"about">>,
     keywords |-> <<"kw">>, category |-> <<"tools">>],
    \* records that lack a required field
    [title |-> ProjTitle, repo |-> <<"rb">>, docs |-> DocsB, sitemap |-> NoneValue],
    [id |-> <<"pg">>, repo |-> <<"rb">>, docs |-> DocsB, sitemap |-> NoneValue],
    [id |-> <<"ph">>, title |-> ProjTitle, docs |-> DocsB]
}

SeqsUpTo(S, n) == UNION {[1..m -> S] : m \in 0..n}

Registries == SeqsUpTo(ProjectPool, MaxProjects) \ {<<>>}

(***************************************************************************)
(* Output files                                                            *)
(***************************************************************************)
SEARCH_INDEX_JSON == "search-index.json"
PROJECTS_JSON == "projects.json"
SITEMAP_OUTPUT_PATH == "sitemap.xml"
UNIFIED_SITEMAP_PATH == "sitemap-unified.xml"
FileNames == {SEARCH_INDEX_JSON, PROJECTS_JSON, SITEMAP_OUTPUT_PATH, UNIFIED_SITEMAP_PATH}

\* what a file holds: "old" (untouched by this run), "empty" (truncated by
\* open(path, "w")), "partial" (some of the new text) or "new" (all of it)
OldFile == [st |-> "old", data |-> <<>>]
EmptyFile == [st |-> "empty", data |-> <<>>]

(***************************************************************************)
(* json.dump                                                               *)
(***************************************************************************)
\* json can encode str but not datetime.date
IsJsonValue(v) == v # DateValue

CardOk(e) == \A k \in DOMAIN e : IsJsonValue(e[k])
EntryOk(e) == \A k \in DOMAIN e \ {"pages"} : IsJsonValue(e[k])

\* the indices of the entries json cannot encode
BadCards(entries) == {k \in 1..Len(entries) : ~CardOk(entries[k])}
BadEntries(entries) == {k \in 1..Len(entries) : ~EntryOk(entries[k])}

\* the entries ahead of the first one json cannot encode
GoodPrefix(entries, bad) ==
    IF bad = {} THEN entries
    ELSE SubSeq(entries, 1, (CHOOSE k \in bad : \A m \in bad : k <= m) - 1)

\* with open(path, "w") as f: json.dump(obj, f): the chunks of the encoding
\* are written as they are produced, so a TypeError leaves what came before
json_dump(entries, bad) ==
    IF bad = {}
    THEN [st |-> "new", data |-> entries]
    ELSE [st |-> "partial", data |-> GoodPrefix(entries, bad)]

(***************************************************************************)
(* What the remote hosts answer.  Every request is answered afresh: the    *)
(* model draws the answer when the request is made.                        *)
(***************************************************************************)
\* A sitemap document names at most one nested sitemap: "none" (a flat
\* sitemap), or one whose fetch fails ("notok"), whose body does not parse
\* ("malformed") or that lists sub_urls ("ok").
NestedShapes == {"none", "notok", "malformed", "ok"}

\* the documents a candidate path answers with: (status, body) of _fetch
CandidateResponses(docs) ==
    {[kind |-> k, sub |-> "none", sub_urls |-> <<>>, direct |-> <<>>] :
        k \in {"notok", "blank", "malformed"}}
    \cup
    {[kind |-> "xml", sub |-> s, sub_urls |-> SubSeq(l, 1, n),
      direct |-> SubSeq(l, n + 1, Len(l))] :
        s \in NestedShapes \ {"ok"}, n \in {0},
        l \in SeqsUpTo(PageUrls(docs), MaxSitemapUrls)}
    \cup
    UNION {{[kind |-> "xml", sub |-> "ok", sub_urls |-> SubSeq(l, 1, n),
             direct |-> SubSeq(l, n + 1, Len(l))] : n \in 0..Len(l)} :
        l \in SeqsUpTo(PageUrls(docs), MaxSitemapUrls)}

\* what _extract_page_info returns for a page: (title or None, desc or None)
PageInfos == {
    [title |-> NoneValue, desc |-> NoneValue],
    [title |-> <<"Guide">>, desc |-> NoneValue],
    [title |-> <<"torchx", " ", "Guide">>, desc |-> <<"summary">>]
}

(***************************************************************************)
(* generate.py                                                             *)
(***************************************************************************)
RequiredKeys == <<"id", "repo", "title">>

\* the first of proj["id"], proj["repo"], proj["title"] that raises KeyError
MissingKey(proj) ==
    LET miss == {k \in 1..Len(RequiredKeys) : RequiredKeys[k] \notin DOMAIN proj}
    IN  IF miss = {} THEN "none"
        ELSE RequiredKeys[CHOOSE k \in miss : \A m \in miss : k <= m]

docs_url(proj) == Get(proj, "docs", DefaultDocs(proj.repo))

ProjectCard(proj) ==
    [id |-> proj.id, title |-> proj.title, repo |-> proj.repo,
     category |-> Get(proj, "category", EmptyStr),
     description |-> Get(proj, "description", EmptyStr),
     docs |-> docs_url(proj), github |-> GithubUrl(proj.repo)]

ManualPage(pg) ==
    [title |-> pg.title, url |-> pg.url, content |-> Get(pg, "content", EmptyStr)]

ManualPages(proj) ==
    LET pgs == Get(proj, "pages", <<>>)
    IN  [k \in 1..Len(pgs) |-> ManualPage(pgs[k])]

ManualUrls(proj) ==
    LET pgs == Get(proj, "pages", <<>>)
    IN  {rstrip(pgs[k].url) : k \in 1..Len(pgs)}

\* lines 271-279: keep the first page of every normalized URL
RECURSIVE DedupFrom(_, _)
DedupFrom(pgs, seen) ==
    IF pgs = <<>> THEN <<>>
    ELSE LET key == rstrip(Head(pgs).url)
         IN  IF key \notin seen
             THEN <<Head(pgs)>> \o DedupFrom(Tail(pgs), seen \cup {key})
             ELSE DedupFrom(Tail(pgs), seen)

Deduplicate(pgs) == DedupFrom(pgs, {})

SearchEntry(proj, pgs) ==
    [id |-> proj.id, title |-> proj.title,
     category |-> Get(proj, "category", EmptyStr),
     description |-> Get(proj, "description", EmptyStr),
     keywords |-> Get(proj, "keywords", EmptyStr),
     url |-> docs_url(proj), pages |-> pgs]

\* lines 258-261
CrawledTitle(title, proj_title) ==
    IF ~Contains(lower(title), lower(proj_title))
    THEN title \o <<" - ">> \o proj_title
    ELSE title

\* the offline flag forgotten
ShouldCrawl_IgnoreOffline(off, docs) == _is_crawlable(docs)

\* line 239
ShouldCrawl(off, docs) == ~off /\ _is_crawlable(docs)

\* the discovered URL compared without rstrip("/")
IsManual_NoNormalize(page_url, manual) == page_url \in manual

\* line 249
IsManual(page_url, manual) == rstrip(page_url) \in manual

Request(fn, url) == [fn |-> fn, url |-> url]

\* the exception swallowed: the run reports success
Abort_Swallowed(exc) ==
    /\ pc' = "done"
    /\ error' = exc
    /\ exit_code' = 0

\* an exception no handler catches ends the process with status 1
Abort(exc) ==
    /\ pc' = "aborted"
    /\ error' = exc
    /\ exit_code' = 1

\* lines 203-241 and, when nothing is crawled, 281-293: one pass of the
\* loop body up to the crawl
GenProject ==
    /\ UNCHANGED <<urls, tried, last>>
    /\ prog = "generate" /\ pc = "g_loop" /\ i <= Len(registry)
    /\ LET proj == registry[i] IN
       IF MissingKey(proj) # "none"
       THEN /\ Abort("KeyError")
            /\ UNCHANGED <<i, projects_out, search_index, manual_urls, pages,
                           cand, sitemap_urls, j, fetched>>
       ELSE /\ projects_out' = Append(projects_out, ProjectCard(proj))
            /\ manual_urls' = ManualUrls(proj)
            /\ fetched' = {}
            /\ sitemap_urls' = <<>>
            /\ j' = 1
            /\ IF ShouldCrawl(offline, docs_url(proj))
               THEN /\ pages' = ManualPages(proj)
                    /\ pc' = "g_discover"
                    /\ cand' = 1
                    /\ UNCHANGED <<i, search_index>>
               ELSE /\ search_index' =
                          Append(search_index, SearchEntry(proj, ManualPages(proj)))
                    /\ pages' = ManualPages(proj)
                    /\ i' = i + 1
                    /\ UNCHANGED <<pc, cand>>
            /\ UNCHANGED <<error, exit_code>>
    /\ UNCHANGED <<prog, registry, offline, validate, unified, network, all_valid, results,
                   root, files>>

\* the URLs one candidate document adds to urls (lines 102-122)
CollectedUrls(r) ==
    IF r.kind = "xml" THEN (IF r.sub = "ok" THEN r.sub_urls ELSE <<>>) \o r.direct
    ELSE <<>>

\* no candidate fetched yet
NoResponse == [kind |-> "none", sub |-> "none", sub_urls |-> <<>>, direct |-> <<>>]

\* the break left out: the loop ends only after the last path
StopSearch_NoBreak(collected, k) == k = Len(sitemap_paths)

\* lines 90 and 124-125: the loop ends at the break or after the last path
StopSearch(collected, k) == collected # <<>> \/ k = Len(sitemap_paths)

\* _fetch_sitemap_urls, one pass of `for sitemap_path in sitemap_paths`
GenFetchCandidate ==
    /\ UNCHANGED <<urls, tried, last>>
    /\ prog = "generate" /\ pc = "g_discover" /\ cand <= Len(sitemap_paths)
    /\ \E r \in CandidateResponses(docs_url(registry[i])) :
          LET found == CollectedUrls(r) IN
          /\ sitemap_urls' = found
          /\ IF StopSearch(found, cand)
             THEN pc' = "g_crawl" /\ cand' = 0
             ELSE pc' = pc /\ cand' = cand + 1
    /\ network' = TRUE
    /\ j' = 1
    /\ UNCHANGED <<prog, registry, offline, validate, unified, i, projects_out,
                   search_index, manual_urls, pages, fetched, all_valid, results, root,
                   files, error, exit_code>>

\* lines 248-269: one pass of `for page_url in sitemap_urls`
GenCrawlPage ==
    /\ UNCHANGED <<urls, tried, last>>
    /\ prog = "generate" /\ pc = "g_crawl" /\ j <= Len(sitemap_urls)
    /\ LET page_url == sitemap_urls[j]
           proj == registry[i] IN
       IF IsManual(page_url, manual_urls) \/ _should_skip_url(page_url)
       THEN UNCHANGED <<pages, fetched, network>>
       ELSE \E info \in PageInfos :
               /\ fetched' = fetched \cup {Request("_extract_page_info", page_url)}
               /\ network' = TRUE
               /\ IF info.title = NoneValue
                  THEN UNCHANGED pages
                  ELSE pages' = Append(pages,
                          [title |-> CrawledTitle(info.title, proj.title),
                           url |-> page_url,
                           content |-> IF info.desc = NoneValue THEN EmptyStr
                                       ELSE info.desc])
    /\ j' = j + 1
    /\ UNCHANGED <<prog, registry, offline, validate, unified, pc, i, projects_out,
                   search_index, manual_urls, cand, sitemap_urls, all_valid, results, root,
                   files, error, exit_code>>

\* lines 271-293: the crawl is over, deduplicate and emit the entry
GenFinishCrawl ==
    /\ UNCHANGED <<urls, tried, last>>
    /\ prog = "generate" /\ pc = "g_crawl" /\ j > Len(sitemap_urls)
    /\ pages' = Deduplicate(pages)
    /\ search_index' = Append(search_index, SearchEntry(registry[i], Deduplicate(pages)))
    /\ i' = i + 1
    /\ pc' = "g_loop"
    /\ UNCHANGED <<prog, registry, offline, validate, unified, projects_out,
                   manual_urls, cand, sitemap_urls, j, fetched, network, all_valid, results,
                   root, files, error, exit_code>>

\* lines 296-298: os.makedirs, open(SEARCH_INDEX_JSON, "w")
GenOpenSearchIndex ==
    /\ UNCHANGED <<urls, tried, last>>
    /\ prog = "generate" /\ pc = "g_loop" /\ i > Len(registry)
    /\ files' = [files EXCEPT ![SEARCH_INDEX_JSON] = EmptyFile]
    /\ pc' = "g_dump_search_index"
    /\ UNCHANGED <<prog, registry, offline, validate, unified, i, projects_out,
                   search_index, manual_urls, pages, cand, sitemap_urls, j, fetched,
                   network, all_valid, results, root, error, exit_code>>

\* line 299: json.dump(search_index, f) and the close of the with block
GenDumpSearchIndex ==
    /\ UNCHANGED <<urls, tried, last>>
    /\ prog = "generate" /\ pc = "g_dump_search_index"
    /\ files' = [files EXCEPT ![SEARCH_INDEX_JSON] = json_dump(search_index, BadEntries(search_index))]
    /\ IF json_dump(search_index, BadEntries(search_index)).st = "new"
       THEN pc' = "g_open_projects" /\ UNCHANGED <<error, exit_code>>
       ELSE Abort("TypeError")
    /\ UNCHANGED <<prog, registry, offline, validate, unified, i, projects_out,
                   search_index, manual_urls, pages, cand, sitemap_urls, j, fetched,
                   network, all_valid, results, root>>

\* line 302: open(PROJECTS_JSON, "w")
GenOpenProjects ==
    /\ UNCHANGED <<urls, tried, last>>
    /\ prog = "generate" /\ pc = "g_open_projects"
    /\ files' = [files EXCEPT ![PROJECTS_JSON] = EmptyFile]
    /\ pc' = "g_dump_projects"
    /\ UNCHANGED <<prog, registry, offline, validate, unified, i, projects_out,
                   search_index, manual_urls, pages, cand, sitemap_urls, j, fetched,
                   network, all_valid, results, root, error, exit_code>>

\* line 303: json.dump(projects_out, f) and the close of the with block
GenDumpProjects ==
    /\ UNCHANGED <<urls, tried, last>>
    /\ prog = "generate" /\ pc = "g_dump_projects"
    /\ files' = [files EXCEPT ![PROJECTS_JSON] = json_dump(projects_out, BadCards(projects_out))]
    /\ IF json_dump(projects_out, BadCards(projects_out)).st = "new"
       THEN pc' = "done" /\ exit_code' = 0 /\ UNCHANGED error
       ELSE Abort("TypeError")
    /\ UNCHANGED <<prog, registry, offline, validate, unified, i, projects_out,
                   search_index, manual_urls, pages, cand, sitemap_urls, j, fetched,
                   network, all_valid, results, root>>

InitGenerate ==
    /\ urls = <<>>
    /\ tried = <<>>
    /\ last = NoResponse
    /\ prog = "generate"
    /\ registry \in Registries
    /\ offline \in BOOLEAN
    /\ validate = FALSE
    /\ unified = FALSE
    /\ pc = "g_loop"
    /\ i = 1
    /\ projects_out = <<>>
    /\ search_index = <<>>
    /\ manual_urls = {}
    /\ pages = <<>>
    /\ cand = 0
    /\ sitemap_urls = <<>>
    /\ j = 1
    /\ fetched = {}
    /\ network = FALSE
    /\ all_valid = TRUE
    /\ results = <<>>
    /\ root = <<>>
    /\ files = [f \in FileNames |-> OldFile]
    /\ error = "none"
    /\ exit_code = -1

(***************************************************************************)
(* scripts/generate_sitemap.py                                             *)
(***************************************************************************)
get_project_sitemap_url(project) ==
    IF "sitemap" \in DOMAIN project THEN project.sitemap
    ELSE rstrip(Get(project, "docs", EmptyStr)) \o <<"/", "sitemap.xml">>

SitemapEntry(loc) == [loc |-> loc, lastmod |-> Today]

RECURSIVE ProjectSitemapEntries(_)
ProjectSitemapEntries(projects) ==
    IF projects = <<>> THEN <<>>
    ELSE LET sitemap_url == get_project_sitemap_url(Head(projects))
         IN  (IF sitemap_url = NoneValue THEN <<>> ELSE <<SitemapEntry(sitemap_url)>>)
             \o ProjectSitemapEntries(Tail(projects))

\* the <sitemap> children of the <sitemapindex> root, in document order
generate_sitemap_index(projects, include_main) ==
    (IF include_main
     THEN <<SitemapEntry(BASE_URL \o <<"/">> \o MAIN_SITEMAP_PATH)>>
     ELSE <<>>)
    \o ProjectSitemapEntries(projects)

\* a <url> element is the sequence of its children
Child(tag, text) == [tag |-> tag, text |-> text]

MainUrl ==
    << Child("loc", BASE_URL \o <<"/">>), Child("lastmod", Today),
       Child("priority", <<"1.0">>), Child("changefreq", <<"weekly">>) >>

\* lines 130-136 and 144-150: the docs root of a project without a sitemap
DocsRootUrl(project) ==
    << Child("loc", rstrip(Get(project, "docs", EmptyStr)) \o <<"/">>),
       Child("lastmod", Today), Child("priority", <<"0.8">>) >>

\* lines 156-167: a <url> of the fetched sitemap, copied
CopyUrl(url_entry) ==
    IF \E k \in 1..Len(url_entry) : url_entry[k].tag = "lastmod"
    THEN url_entry
    ELSE Append(url_entry, Child("lastmod", Today))

\* urllib raises ValueError("unknown url type") for a URL without a scheme
HasScheme(url) == url # <<>> /\ Head(url) \in {"https://", "http://"}

\* the <url> elements a remote sitemap may hold
RemoteUrlEntries == {
    << Child("loc", PageA(DocsB)), Child("lastmod", <<"2020-01-01">>) >>,
    << Child("loc", PageASlash(DocsB)) >>
}

\* how urlopen(url).read() and ET.fromstring end in fetch_sitemap
FetchOutcomes(url) ==
    IF ~HasScheme(url) THEN {[kind |-> "ValueError", urls |-> <<>>]}
    ELSE {[kind |-> k, urls |-> <<>>] :
             k \in {"URLError", "HTTPError", "ParseError", "TimeoutError"}}
         \cup {[kind |-> "ok", urls |-> l] : l \in SeqsUpTo(RemoteUrlEntries, MaxSitemapUrls)}

\* line 64: except (URLError, HTTPError, ParseError)
CaughtByFetchSitemap == {"URLError", "HTTPError", "ParseError"}

\* fetch_sitemap returns an element ("ok"), returns None ("none") or raises
FetchResult(o) ==
    IF o.kind = "ok" THEN "ok"
    ELSE IF o.kind \in CaughtByFetchSitemap THEN "none"
    ELSE "raise"

\* all_valid overwritten by the latest check
AllValidAfter_LatestOnly(valid, result) == result = "ok"

\* lines 183-187: all_valid after one project's check
AllValidAfter(valid, result) == valid /\ result = "ok"

\* lines 213-235: main() up to the choice of the mode
SmMain ==
    /\ UNCHANGED <<urls, tried, last>>
    /\ prog = "sitemap" /\ pc = "s_main"
    /\ pc' = IF validate THEN "s_validate" ELSE "s_index"
    /\ UNCHANGED <<prog, registry, offline, validate, unified, i, projects_out,
                   search_index, manual_urls, pages, cand, sitemap_urls, j, fetched,
                   network, all_valid, results, root, files, error, exit_code>>

\* validate_sitemaps, one pass of `for project in projects`
SmValidateProject ==
    /\ UNCHANGED <<urls, tried, last>>
    /\ prog = "sitemap" /\ pc = "s_validate" /\ i <= Len(registry)
    /\ LET sitemap_url == get_project_sitemap_url(registry[i]) IN
       IF sitemap_url = NoneValue
       THEN /\ fetched' = {}
            /\ results' = Append(results, "skip")
            /\ i' = i + 1
            /\ UNCHANGED <<pc, network, all_valid, error, exit_code>>
       ELSE \E o \in FetchOutcomes(sitemap_url) :
               /\ fetched' = {Request("fetch_sitemap", sitemap_url)}
               /\ network' = (network \/ HasScheme(sitemap_url))
               /\ results' = Append(results, FetchResult(o))
               /\ IF FetchResult(o) = "raise"
                  THEN Abort(o.kind) /\ UNCHANGED <<i, all_valid>>
                  ELSE /\ all_valid' = AllValidAfter(all_valid, FetchResult(o))
                       /\ i' = i + 1
                       /\ UNCHANGED <<pc, error, exit_code>>
    /\ UNCHANGED <<prog, registry, offline, validate, unified, projects_out,
                   search_index, manual_urls, pages, cand, sitemap_urls, j, root,
                   files>>

\* lines 227-232: sys.exit(0) or sys.exit(1)
SmValidateExit ==
    /\ UNCHANGED <<urls, tried, last>>
    /\ prog = "sitemap" /\ pc = "s_validate" /\ i > Len(registry)
    /\ pc' = "done"
    /\ exit_code' = IF all_valid THEN 0 ELSE 1
    /\ UNCHANGED <<prog, registry, offline, validate, unified, i, projects_out,
                   search_index, manual_urls, pages, cand, sitemap_urls, j, fetched,
                   network, all_valid, results, root, files, error>>

\* lines 234-241: mkdir, generate_sitemap_index, open(sitemap_path, "w")
SmOpenIndex ==
    /\ UNCHANGED <<urls, tried, last>>
    /\ prog = "sitemap" /\ pc = "s_index"
    /\ files' = [files EXCEPT ![SITEMAP_OUTPUT_PATH] = EmptyFile]
    /\ pc' = "s_index_write"
    /\ UNCHANGED <<prog, registry, offline, validate, unified, i, projects_out,
                   search_index, manual_urls, pages, cand, sitemap_urls, j, fetched,
                   network, all_valid, results, root, error, exit_code>>

\* lines 242-246: f.write(sitemap_index), then the unified sitemap if asked
SmWriteIndex ==
    /\ UNCHANGED <<urls, tried, last>>
    /\ prog = "sitemap" /\ pc = "s_index_write"
    /\ files' = [files EXCEPT ![SITEMAP_OUTPUT_PATH] =
                    [st |-> "new", data |-> generate_sitemap_index(registry, TRUE)]]
    /\ IF unified
       THEN /\ pc' = "s_unified"
            /\ root' = <<MainUrl>>
            /\ UNCHANGED exit_code
       ELSE /\ pc' = "done"
            /\ exit_code' = 0
            /\ UNCHANGED root
    /\ UNCHANGED <<prog, registry, offline, validate, unified, i, projects_out,
                   search_index, manual_urls, pages, cand, sitemap_urls, j, fetched,
                   network, all_valid, results, error>>

\* generate_unified_sitemap, one pass of `for project in projects`
SmUnifiedProject ==
    /\ UNCHANGED <<urls, tried, last>>
    /\ prog = "sitemap" /\ pc = "s_unified" /\ i <= Len(registry)
    /\ LET project == registry[i]
           sitemap_url == get_project_sitemap_url(project) IN
       IF sitemap_url = NoneValue
       THEN /\ root' = Append(root, DocsRootUrl(project))
            /\ fetched' = {}
            /\ results' = Append(results, "skip")
            /\ i' = i + 1
            /\ UNCHANGED <<pc, network, error, exit_code>>
       ELSE \E o \in FetchOutcomes(sitemap_url) :
               /\ fetched' = {Request("fetch_sitemap", sitemap_url)}
               /\ network' = (network \/ HasScheme(sitemap_url))
               /\ results' = Append(results, FetchResult(o))
               /\ CASE FetchResult(o) = "raise" ->
                         Abort(o.kind) /\ UNCHANGED <<i, root>>
                    [] FetchResult(o) = "none" ->
                         /\ root' = Append(root, DocsRootUrl(project))
                         /\ i' = i + 1
                         /\ UNCHANGED <<pc, error, exit_code>>
                    [] FetchResult(o) = "ok" ->
                         /\ root' = root \o [k \in 1..Len(o.urls) |-> CopyUrl(o.urls[k])]
                         /\ i' = i + 1
                         /\ UNCHANGED <<pc, error, exit_code>>
    /\ UNCHANGED <<prog, registry, offline, validate, unified, projects_out,
                   search_index, manual_urls, pages, cand, sitemap_urls, j,
                   all_valid, files>>

\* lines 249-250: open(unified_path, "w")
SmOpenUnified ==
    /\ UNCHANGED <<urls, tried, last>>
    /\ prog = "sitemap" /\ pc = "s_unified" /\ i > Len(registry)
    /\ files' = [files EXCEPT ![UNIFIED_SITEMAP_PATH] = EmptyFile]
    /\ pc' = "s_unified_write"
    /\ UNCHANGED <<prog, registry, offline, validate, unified, i, projects_out,
                   search_index, manual_urls, pages, cand, sitemap_urls, j, fetched,
                   network, all_valid, results, root, error, exit_code>>

\* lines 251-254: f.write(unified_sitemap)
SmWriteUnified ==
    /\ UNCHANGED <<urls, tried, last>>
    /\ prog = "sitemap" /\ pc = "s_unified_write"
    /\ files' = [files EXCEPT ![UNIFIED_SITEMAP_PATH] = [st |-> "new", data |-> root]]
    /\ pc' = "done"
    /\ exit_code' = 0
    /\ UNCHANGED <<prog, registry, offline, validate, unified, i, projects_out,
                   search_index, manual_urls, pages, cand, sitemap_urls, j, fetched,
                   network, all_valid, results, root, error>>

InitSitemap ==
    /\ urls = <<>>
    /\ tried = <<>>
    /\ last = NoResponse
    /\ prog = "sitemap"
    /\ registry \in Registries
    /\ offline = FALSE
    /\ validate \in BOOLEAN
    /\ unified \in BOOLEAN
    /\ pc = "s_main"
    /\ i = 1
    /\ projects_out = <<>>
    /\ search_index = <<>>
    /\ manual_urls = {}
    /\ pages = <<>>
    /\ cand = 0
    /\ sitemap_urls = <<>>
    /\ j = 1
    /\ fetched = {}
    /\ network = FALSE
    /\ all_valid = TRUE
    /\ results = <<>>
    /\ root = <<>>
    /\ files = [f \in FileNames |-> OldFile]
    /\ error = "none"
    /\ exit_code = -1

(***************************************************************************)
(* generate.py: _fetch_sitemap_urls(docs_url) called on its own, with the  *)
(* candidate URLs it fetched and the latest answer kept as history         *)
(***************************************************************************)
\* the docs_url arguments generate() passes at line 241
DiscoveryInputs ==
    {p \in ProjectPool : MissingKey(p) = "none" /\ _is_crawlable(docs_url(p))}

\* lines 76-77: base = docs_url.rstrip("/"), urls = []
InitDiscovery ==
    /\ prog = "discover"
    /\ registry \in {<<p>> : p \in DiscoveryInputs}
    /\ offline = FALSE
    /\ validate = FALSE
    /\ unified = FALSE
    /\ pc = "d_fetch"
    /\ i = 1
    /\ projects_out = <<>>
    /\ search_index = <<>>
    /\ manual_urls = {}
    /\ pages = <<>>
    /\ cand = 1
    /\ urls = <<>>
    /\ tried = <<>>
    /\ last = NoResponse
    /\ sitemap_urls = <<>>
    /\ j = 1
    /\ fetched = {}
    /\ network = FALSE
    /\ all_valid = TRUE
    /\ results = <<>>
    /\ root = <<>>
    /\ files = [f \in FileNames |-> OldFile]
    /\ error = "none"
    /\ exit_code = -1

\* lines 90-125: one pass of `for sitemap_path in sitemap_paths`
DiscFetchCandidate ==
    /\ prog = "discover" /\ pc = "d_fetch" /\ cand <= Len(sitemap_paths)
    /\ tried' = Append(tried, rstrip(docs_url(registry[i])) \o sitemap_paths[cand])
    /\ \E r \in CandidateResponses(docs_url(registry[i])) :
          /\ last' = r
          /\ urls' = urls \o CollectedUrls(r)
          /\ IF StopSearch(urls \o CollectedUrls(r), cand)
             THEN pc' = "d_return" /\ cand' = cand
             ELSE pc' = pc /\ cand' = cand + 1
    /\ network' = TRUE
    /\ UNCHANGED <<prog, registry, offline, validate, unified, i, projects_out,
                   search_index, manual_urls, pages, sitemap_urls, j, fetched,
                   all_valid, results, root, files, error, exit_code>>

\* line 127: return urls
DiscReturn ==
    /\ prog = "discover" /\ pc = "d_return"
    /\ sitemap_urls' = urls
    /\ pc' = "d_done"
    /\ UNCHANGED <<prog, registry, offline, validate, unified, i, projects_out,
                   search_index, manual_urls, pages, cand, urls, tried, last, j,
                   fetched, network, all_valid, results, root, files, error,
                   exit_code>>

NextDiscovery ==
    \/ DiscFetchCandidate
    \/ DiscReturn

SpecDiscovery == InitDiscovery /\ [][NextDiscovery]_vars

(***************************************************************************)
(* A run of either script                                                  *)
(***************************************************************************)
Init == InitGenerate \/ InitSitemap

Next ==
    \/ GenProject
    \/ GenFetchCandidate
    \/ GenCrawlPage
    \/ GenFinishCrawl
    \/ GenOpenSearchIndex
    \/ GenDumpSearchIndex
    \/ GenOpenProjects
    \/ GenDumpProjects
    \/ SmMain
    \/ SmValidateProject
    \/ SmValidateExit
    \/ SmOpenIndex
    \/ SmWriteIndex
    \/ SmUnifiedProject
    \/ SmOpenUnified
    \/ SmWriteUnified

Spec == Init /\ [][Next]_vars

(***************************************************************************)
(* Properties                                                              *)
(***************************************************************************)
Terminated == pc \in {"done", "aborted"}

\* the crawl of the latest project is over and its entry is search_index[i - 1]
CrawlFinished ==
    /\ prog = "generate"
    /\ pc \notin {"g_discover", "g_crawl"}
    /\ sitemap_urls # <<>>

DeclaredPages(proj) == IF "pages" \in DOMAIN proj THEN proj.pages ELSE <<>>

\* a manual page as the index is to carry it
DeclaredEntry(pg) ==
    [title |-> pg.title, url |-> pg.url,
     content |-> IF "content" \in DOMAIN pg THEN pg.content ELSE <<>>]

NormalizedUrl(url) == rstrip(url)

IsArtifactUrl(url) == \E k \in 1..Len(_SKIP_PATTERNS) : Contains(url, _SKIP_PATTERNS[k])

NoDuplicatePages(pgs) ==
    \A m, n \in 1..Len(pgs) :
        m # n => NormalizedUrl(pgs[m].url) # NormalizedUrl(pgs[n].url)

\* C1: in every search index entry written, in every mode, no two pages of
\* a project have the same URL up to trailing slashes.
C1_PagesDeduplicated ==
    files[SEARCH_INDEX_JSON].st = "new" =>
        \A k \in 1..Len(files[SEARCH_INDEX_JSON].data) :
            NoDuplicatePages(files[SEARCH_INDEX_JSON].data[k].pages)

\* the first manual page of proj whose normalized URL is u
FirstDeclared(proj, u) ==
    LET pgs == DeclaredPages(proj)
        at == {m \in 1..Len(pgs) : NormalizedUrl(pgs[m].url) = u}
    IN  pgs[CHOOSE m \in at : \A n \in at : m <= n]

Collides(proj, url) ==
    \E m \in 1..Len(DeclaredPages(proj)) :
        NormalizedUrl(DeclaredPages(proj)[m].url) = NormalizedUrl(url)

\* C2: when the manual pages and the discovered URLs of a project hold the
\* same URL up to a trailing slash, the page is never fetched for metadata
\* and the project's entry has exactly one page of that normalized URL, the
\* manually declared one.
C2_ManualWinsCollision ==
    /\ (prog = "generate" /\ pc = "g_crawl") =>
          \A r \in fetched : ~Collides(registry[i], r.url)
    /\ CrawlFinished =>
          \A m \in 1..Len(sitemap_urls) :
             Collides(registry[i - 1], sitemap_urls[m]) =>
                LET u == NormalizedUrl(sitemap_urls[m])
                    pgs == search_index[i - 1].pages
                    at == {n \in 1..Len(pgs) : NormalizedUrl(pgs[n].url) = u}
                IN  /\ Cardinality(at) = 1
                    /\ \A n \in at : pgs[n] = DeclaredEntry(FirstDeclared(registry[i - 1], u))
                    /\ \A r \in fetched : NormalizedUrl(r.url) # u

\* C2 witness: a crawl found .../a where .../a/ is declared, and the entry
\* was emitted
C2_Witness ==
    /\ CrawlFinished
    /\ \E m \in 1..Len(sitemap_urls) :
          /\ Collides(registry[i - 1], sitemap_urls[m])
          /\ \A n \in 1..Len(DeclaredPages(registry[i - 1])) :
                DeclaredPages(registry[i - 1])[n].url # sitemap_urls[m]
    /\ Len(search_index) = i - 1

\* C3: with --offline no request is made at any point of the run and every
\* project's page list is its manual pages, in order, content defaulted to "".
C3_OfflineManualOnly ==
    (prog = "generate" /\ offline) =>
        /\ ~network
        /\ fetched = {}
        /\ \A k \in 1..Len(search_index) :
              LET pgs == DeclaredPages(registry[k])
              IN  search_index[k].pages = [n \in 1..Len(pgs) |-> DeclaredEntry(pgs[n])]
        /\ files[SEARCH_INDEX_JSON].st = "new" =>
              files[SEARCH_INDEX_JSON].data = search_index

\* C3 witness: an offline run wrote an index with a project of two manual pages
C3_Witness ==
    /\ prog = "generate" /\ offline /\ pc = "done"
    /\ files[SEARCH_INDEX_JSON].st = "new"
    /\ \E k \in 1..Len(search_index) : Len(search_index[k].pages) = 2

\* C4 as stated: a discovered URL holding a skip pattern is no page URL of
\* the search index.
C4_NoDiscoveredArtifactInIndex ==
    CrawlFinished =>
        \A m \in 1..Len(sitemap_urls) :
            IsArtifactUrl(sitemap_urls[m]) =>
                \A k \in 1..Len(search_index) :
                    \A n \in 1..Len(search_index[k].pages) :
                        search_index[k].pages[n].url # sitemap_urls[m]

\* C4 amended: a URL holding a skip pattern is never fetched for metadata,
\* and it is a page URL of a project's entry only as one of the project's
\* manual pages.
C4_ArtifactOnlyIfManual ==
    prog = "generate" =>
        /\ \A r \in fetched : ~IsArtifactUrl(r.url)
        /\ \A k \in 1..Len(search_index) :
              \A n \in 1..Len(search_index[k].pages) :
                 IsArtifactUrl(search_index[k].pages[n].url) =>
                    \E m \in 1..Len(DeclaredPages(registry[k])) :
                       search_index[k].pages[n] = DeclaredEntry(DeclaredPages(registry[k])[m])

\* C4 witness: a crawl found a /_static/ URL the project does not declare,
\* next to a page that was indexed
C4_Witness ==
    /\ CrawlFinished
    /\ Len(search_index) = i - 1
    /\ DeclaredPages(registry[i - 1]) = <<>>
    /\ \E m \in 1..Len(sitemap_urls) : IsArtifactUrl(sitemap_urls[m])
    /\ search_index[i - 1].pages # <<>>

\* C5: no failure of fetching or parsing a project's sitemap ends the run of
\* the sitemap generator: every project is handled.
C5_FetchFailureNeverFatal ==
    prog = "sitemap" =>
        /\ error = "none"
        /\ Terminated => Len(results) = (IF validate \/ unified THEN Len(registry) ELSE 0)

LacksRequired(proj) == {"id", "title", "repo"} \ DOMAIN proj # {}

Untouched == \A f \in FileNames : files[f].st = "old"

\* C6 as stated: a record lacking id, title or repo ends the run of either
\* script in a fatal error before any output file is touched.
C6_MissingFieldFatal ==
    (Terminated /\ \E k \in 1..Len(registry) : LacksRequired(registry[k])) =>
        pc = "aborted" /\ Untouched

\* C6 amended: such a record ends generate.py in a KeyError with no output
\* file touched; generate_sitemap.py never raises a KeyError.
C6_GenerateMissingFieldFatal ==
    /\ (prog = "generate" /\ \E k \in 1..Len(registry) : LacksRequired(registry[k])) =>
          /\ Untouched
          /\ Terminated => (pc = "aborted" /\ error = "KeyError" /\ exit_code = 1)
    /\ prog = "sitemap" => error # "KeyError"

\* C6 witness: generate.py crawled the first project and aborted at the
\* second, which lacks a field
C6_Witness ==
    /\ prog = "generate" /\ pc = "aborted" /\ error = "KeyError"
    /\ i = 2 /\ network /\ LacksRequired(registry[2])

\* C7: when a run has ended, every output file holds its old contents or the
\* complete new contents.
C7_AllOrNothing ==
    Terminated => \A f \in FileNames : files[f].st \in {"old", "new"}

\* the sitemap URL of a project as the registry's schema resolves it
DeclaredDocs(project) ==
    IF "docs" \in DOMAIN project THEN project.docs
    ELSE <<"https://", "meta-pytorch.org", "/">> \o project.repo \o <<"/">>

IsAbsentMarker(project) == "sitemap" \in DOMAIN project /\ project.sitemap = NoneValue

ResolvedSitemap(project) ==
    IF "sitemap" \in DOMAIN project THEN project.sitemap
    ELSE NormalizedUrl(DeclaredDocs(project)) \o <<"/", "sitemap.xml">>

Checked == {k \in 1..Len(registry) : ~IsAbsentMarker(registry[k])}

\* C8: --validate exits 0 when every project with a sitemap URL was fetched
\* and parsed, 1 when one of them failed; skipped projects do not count and
\* no file is written.
C8_ValidateExitCode ==
    (prog = "sitemap" /\ validate) =>
        /\ Untouched
        /\ \A k \in 1..Len(results) : (results[k] = "skip") <=> IsAbsentMarker(registry[k])
        /\ Terminated =>
              exit_code = (IF \A k \in Checked : k <= Len(results) /\ results[k] = "ok"
                           THEN 0 ELSE 1)

\* C8 witness: a validation run skipped one project, found the other's
\* sitemap broken and exited 1
C8_Witness ==
    /\ prog = "sitemap" /\ validate /\ pc = "done" /\ exit_code = 1
    /\ Len(results) = 2
    /\ \E k \in 1..2 : results[k] = "skip"
    /\ \E k \in 1..2 : results[k] = "none"

RECURSIVE ResolvedEntries(_)
ResolvedEntries(projects) ==
    IF projects = <<>> THEN <<>>
    ELSE (IF IsAbsentMarker(Head(projects)) THEN <<>>
          ELSE <<[loc |-> ResolvedSitemap(Head(projects)), lastmod |-> Today]>>)
         \o ResolvedEntries(Tail(projects))

\* C9: the sitemap index written holds the main sitemap first, then one
\* entry per project with a sitemap URL, in registry order, with the
\* project's resolved sitemap URL; without "include main" the main entry is
\* the only one missing.
C9_SitemapIndexContent ==
    /\ files[SITEMAP_OUTPUT_PATH].st = "new" =>
          files[SITEMAP_OUTPUT_PATH].data =
             <<[loc |-> <<"https://", "meta-pytorch.org", "/", "sitemap-main.xml">>,
                lastmod |-> Today]>>
             \o ResolvedEntries(registry)
    /\ files[SITEMAP_OUTPUT_PATH].st = "new" =>
          generate_sitemap_index(registry, FALSE) = ResolvedEntries(registry)

\* C10: for a project whose sitemap is the absent marker the index has no
\* entry, the unified run makes no request and adds exactly one url, the
\* project's docs root at priority 0.8.
C10_AbsentMarkerDocsRoot ==
    /\ files[SITEMAP_OUTPUT_PATH].st = "new" =>
          Len(files[SITEMAP_OUTPUT_PATH].data) = 1 + Cardinality(Checked)
    /\ (prog = "sitemap" /\ pc = "s_unified" /\ i > 1 /\ Len(results) = i - 1
        /\ IsAbsentMarker(registry[i - 1])) =>
          /\ fetched = {}
          /\ results[i - 1] = "skip"
          /\ (\A k \in 1..Len(results) : results[k] \in {"skip", "none"}) =>
                Len(root) = 1 + Len(results)
          /\ root[Len(root)] =
                << [tag |-> "loc", text |-> NormalizedUrl(DeclaredDocs(registry[i - 1])) \o <<"/">>],
                   [tag |-> "lastmod", text |-> Today],
                   [tag |-> "priority", text |-> <<"0.8">>] >>

(***************************************************************************)
(* C11                                                                     *)
(***************************************************************************)
\* what one candidate document yields: the URLs of its nested sitemap, then
\* its own url entries; nothing when the fetch failed, the body was blank or
\* the XML did not parse
NestedThenDirect(r) ==
    IF r.kind \in {"notok", "blank", "malformed", "none"} THEN <<>>
    ELSE (IF r.sub = "ok" THEN r.sub_urls ELSE <<>>) \o r.direct

\* the seven candidate URLs of a docs site, in the fixed order
CandidateUrl(project, k) == NormalizedUrl(DeclaredDocs(project)) \o sitemap_paths[k]

\* C11: Sitemap Discovery fetches the seven candidate paths in the fixed order,
\* passes over every candidate that failed, was blank, did not parse or
\* yielded no URL, stops at the first candidate that yields a URL and returns
\* exactly that candidate's URLs (nested first, then direct); the result is
\* empty exactly when all seven candidates yielded nothing; it never raises.
C11_FirstYieldingCandidateWins ==
    prog = "discover" =>
        /\ Len(sitemap_paths) = 7
        /\ error = "none" /\ pc \in {"d_fetch", "d_return", "d_done"}
        /\ Len(tried) <= 7
        /\ \A k \in 1..Len(tried) : tried[k] = CandidateUrl(registry[1], k)
        /\ pc = "d_fetch" =>
              /\ Len(tried) < 7
              /\ urls = <<>>
              /\ NestedThenDirect(last) = <<>>
        /\ pc \in {"d_return", "d_done"} =>
              /\ tried # <<>>
              /\ urls = NestedThenDirect(last)
              /\ urls = <<>> => Len(tried) = 7
        /\ pc = "d_done" => sitemap_urls = urls
        /\ pc # "d_done" => sitemap_urls = <<>>

\* the fourth candidate is the first to yield: its nested sitemap and its own
\* url entries both contribute, and the result has been returned
C11_Witness ==
    /\ prog = "discover" /\ pc = "d_done"
    /\ Len(tried) = 4
    /\ last.kind = "xml" /\ last.sub = "ok"
    /\ last.sub_urls # <<>> /\ last.direct # <<>>
    /\ last.sub_urls # last.direct
    /\ sitemap_urls = last.sub_urls \o last.direct

====
